---- MODULE Spec2Model ----
(***************************************************************************)
(* A model of the Chelsea FC Digital Twin application (core app).          *)
(*                                                                         *)
(* Spec      : the live-tracking request handlers (LiveTracker.record_     *)
(*             event, LiveTracker.update_match_live) run by two concurrent *)
(*             request workers against one Match row.  The database runs   *)
(*             in Django's autocommit mode (no ATOMIC_REQUESTS, no         *)
(*             transaction.atomic anywhere in the code), so every ORM      *)
(*             statement is one step.                                      *)
(* SpecSerial: the same handlers run by one worker, with every status and  *)
(*             score input.                                                *)
(* SpecCache : saves and deletes of Match and Player with the receivers of *)
(*             signals.py (taken as connected to the models' signals) and  *)
(*             the cached widgets of WidgetManagers.                       *)
(* SpecViews : API views of views.py calling services that raise.          *)
(* SpecCalc  : the percentage and age calculations on bounded arguments.   *)
(* SpecFitness: the calls made by FitnessMonitor.get_fitness_status.       *)
(* SpecEvents: record_event alone, run by two workers, and the admin       *)
(*             action that completes the match.                            *)
(* SpecRead  : one worker and one reader of LiveTracker.get_live_data with *)
(*             the live-match cache entry.                                 *)
(* SpecTiming: one worker, with events posted through MatchEventsView.     *)
(* SpecFitUpdate: the writers of Player.fitness_level.                     *)
(* SpecApi   : FootballAPIService.get_chelsea_players and its cache entry. *)
(***************************************************************************)
EXTENDS Integers, Sequences, FiniteSets, TLC

(***************************************************************************)
(* Bounds of the model.                                                    *)
(***************************************************************************)
MaxScore == 2
MaxEvents == 2

Procs == {1, 2}
KnownPlayer == 1
UnknownPlayer == 2
MalformedPlayer == 3
PlayerIds == {KnownPlayer, UnknownPlayer, MalformedPlayer}
Players == {KnownPlayer}

STATUS_CHOICES == {"SCHEDULED", "LIVE", "HALF_TIME", "FULL_TIME", "COMPLETED", "CANCELLED"}
InvalidStatus == "POSTPONED"
StatusInputs == STATUS_CHOICES \cup {InvalidStatus}
RaceStatusInputs == {"LIVE", "FULL_TIME"}
EVENT_TYPES == {"GOAL", "YELLOW_CARD"}
EventMinutes == {0, 1}
TimingStatusInputs == {"LIVE", "CANCELLED"}
ScoreInputs == {0, MaxScore} \X {0, MaxScore}
RaceScoreInputs == {<<0, MaxScore>>}
NoScore == <<>>
NoStatus == "-"

VARIABLES
    match,        \* the Match row: status, chelsea_score, opponent_score, actual_kickoff set
    events,       \* number of MatchEvent rows of the match, per event type
    playerStats,  \* PlayerStats rows of the match, per player: sequence of rows
    teamStats,    \* the TeamStats row of the match: "none" or "row"
    cacheLive,    \* cache entry live_match_<id>: <<>> or <<the match data stored>>
    pc,           \* per worker: position in the handler it runs
    req,          \* per worker: the request data still to be used
    inst,         \* per worker: the in-memory Match instance loaded by the view
    row,          \* per worker: the in-memory PlayerStats instance
    resp,         \* per worker: the result dictionary returned
    wrote,        \* per worker: the running call has committed a change to the database
    \* LiveTracker.get_live_data (SpecRead)
    rdPc,         \* position of the reading request
    rdInst,       \* the Match instance the reading request loaded
    rdOut,        \* the match data the reading request returned
    \* signals and dashboard widgets (SpecCache)
    dbMatch,      \* the Match row the dashboard reads: "none" or a row
    dbPlayer,     \* the Player row the dashboard reads: "none" or a row
    cache,        \* Django's cache: key -> "none" or the value stored
    lastOp,       \* the operation that completed last
    ret,          \* what the last widget call returned
    \* API views (SpecViews)
    vMatches,     \* completed matches inside the trend period
    vStats,       \* PlayerStats rows of the requested player
    vView,        \* the view handling the request
    vPc,          \* position of the request
    vResult,      \* how the view ended
    \* calculations (SpecCalc)
    calcOp,       \* the calculation applied last
    calcArgs,     \* its arguments
    calcOut,      \* its results
    \* FitnessMonitor.get_fitness_status (SpecFitness)
    fPlayer,      \* the player: fitness_level, recent PlayerStats or not
    fPc,          \* position in the call chain
    fDepth,       \* get_fitness_status frames on the stack
    fOut,         \* how the outermost call ended
    \* fitness updates (SpecFitUpdate)
    uPlayer,      \* the Player row: fitness_level, is_injured, and the player's age
    uLast,        \* the operation that last wrote the Player row
    \* FootballAPIService.get_chelsea_players (SpecApi)
    apiCache,     \* cache entry chelsea_players_<season>: <<>> or <<the data stored>>
    apiPc,        \* position in get_chelsea_players
    apiOut,       \* what the call returns: <<>> or <<the data>>
    apiFetched,   \* the response of the Sportmonks request of this call: <<>> or <<response>>
    apiContacted, \* this call has sent a request to the API
    apiLast,      \* how the previous call ended: "none", "data", "fallback"
    apiRequests   \* number of requests sent to the API

liveVars == <<match, events, playerStats, teamStats, cacheLive, pc, req, inst, row, resp, wrote>>
cacheVars == <<dbMatch, dbPlayer, cache, lastOp, ret>>
viewVars == <<vMatches, vStats, vView, vPc, vResult>>
calcVars == <<calcOp, calcArgs, calcOut>>
fitVars == <<fPlayer, fPc, fDepth, fOut>>
readVars == <<rdPc, rdInst, rdOut>>
upVars == <<uPlayer, uLast>>
apiVars == <<apiCache, apiPc, apiOut, apiFetched, apiContacted, apiLast, apiRequests>>
vars == <<liveVars, readVars, cacheVars, viewVars, calcVars, fitVars, upVars, apiVars>>

\* what the actions of one part of the model leave unchanged
liveFrame == <<readVars, cacheVars, viewVars, calcVars, fitVars, upVars, apiVars>>
readFrame == <<cacheVars, viewVars, calcVars, fitVars, upVars, apiVars>>
cacheFrame == <<liveVars, readVars, viewVars, calcVars, fitVars, upVars, apiVars>>
viewFrame == <<liveVars, readVars, cacheVars, calcVars, fitVars, upVars, apiVars>>
calcFrame == <<liveVars, readVars, cacheVars, viewVars, fitVars, upVars, apiVars>>
fitFrame == <<liveVars, readVars, cacheVars, viewVars, calcVars, upVars, apiVars>>
upFrame == <<liveVars, readVars, cacheVars, viewVars, calcVars, fitVars, apiVars>>
apiFrame == <<liveVars, readVars, cacheVars, viewVars, calcVars, fitVars, upVars>>

NoReq == [op |-> "none"]
NoRow == [idx |-> 0, goals |-> 0]
NoInst == [status |-> NoStatus, chelsea_score |-> 0, opponent_score |-> 0, actual_kickoff |-> FALSE]

TotalEvents == events["GOAL"] + events["YELLOW_CARD"]
PendingEvents == Cardinality({p \in Procs : pc[p] = "re_create"})

(***************************************************************************)
(* Match.result (models.py): a property computed from the fields.          *)
(***************************************************************************)
ResultWinOnLevelScore(m) ==
    IF m.status \notin {"FULL_TIME", "COMPLETED"} THEN "TBD"
    ELSE IF m.chelsea_score >= m.opponent_score THEN "WIN"
    ELSE IF m.chelsea_score < m.opponent_score THEN "LOSS"
    ELSE "DRAW"

Result(m) ==
    IF m.status \notin {"FULL_TIME", "COMPLETED"} THEN "TBD"
    ELSE IF m.chelsea_score > m.opponent_score THEN "WIN"
    ELSE IF m.chelsea_score < m.opponent_score THEN "LOSS"
    ELSE "DRAW"

(***************************************************************************)
(* validators.validate_match_result_consistency: TRUE when it returns,     *)
(* FALSE when it raises ValidationError.                                   *)
(***************************************************************************)
validate_match_result_consistency(chelsea_score, opponent_score, result) ==
    LET calculated_result == IF chelsea_score > opponent_score THEN "WIN"
                             ELSE IF chelsea_score < opponent_score THEN "LOSS"
                             ELSE "DRAW"
    IN  result = calculated_result

(***************************************************************************)
(* PlayerStats.Meta.unique_together = ['player', 'match']: the database    *)
(* accepts an INSERT for (player, match) only when no row exists for it.   *)
(***************************************************************************)
InsertAllowedNoConstraint(pl) == TRUE

UniqueTogetherAllowsInsert(pl) == Len(playerStats[pl]) = 0

(***************************************************************************)
(* match_post_save (signals.py) run on the instance that record_event has  *)
(* just saved with chelsea_score = F('chelsea_score') + 1: for a FULL_TIME *)
(* or COMPLETED instance the handler evaluates instance.result, which      *)
(* compares the F() expression with an integer.  Django before 6.0 leaves  *)
(* the expression on the instance (TypeError); Django 6.0 and later        *)
(* refreshes the field on save (no error).  The outcomes the installation  *)
(* can produce: TRUE = the handler raises.                                 *)
(***************************************************************************)
GoalSignalRaises(status) ==
    IF status \in {"FULL_TIME", "COMPLETED"} THEN {TRUE, FALSE} ELSE {FALSE}

(***************************************************************************)
(* match.chelsea_score = F('chelsea_score') + 1 with save(update_fields):  *)
(* the UPDATE adds one to the stored value; the value on the instance the  *)
(* view loaded is not used.                                                *)
(***************************************************************************)
IncrementLoadedValue(stored, loaded) == loaded + 1

FIncrement(stored, loaded) == stored + 1

LiveInit ==
    /\ match = [status |-> "SCHEDULED", chelsea_score |-> 0, opponent_score |-> 0,
                actual_kickoff |-> FALSE]
    /\ events = [t \in EVENT_TYPES |-> 0]
    /\ playerStats = [pl \in Players |-> <<>>]
    /\ teamStats = "none"
    /\ cacheLive = <<>>
    /\ pc = [p \in Procs |-> "idle"]
    /\ req = [p \in Procs |-> NoReq]
    /\ inst = [p \in Procs |-> NoInst]
    /\ row = [p \in Procs |-> NoRow]
    /\ resp = [p \in Procs |-> "none"]
    /\ wrote = [p \in Procs |-> FALSE]

(***************************************************************************)
(* LiveTrackingView.post: get_object_or_404(Match) loads the instance,     *)
(* then LiveTracker.record_event(match, event_data) starts.  Of the loaded *)
(* instance the status and the score are kept.                             *)
(***************************************************************************)
RecordEventBegin(p) ==
    /\ pc[p] = "idle"
    /\ TotalEvents + PendingEvents < MaxEvents
    /\ \E pl \in PlayerIds, t \in EVENT_TYPES, minute \in EventMinutes :
          req' = [req EXCEPT ![p] = [op |-> "record_event", player_id |-> pl,
                                     event_type |-> t, minute |-> minute]]
    /\ inst' = [inst EXCEPT ![p] = [NoInst EXCEPT !.status = match.status,
                                                  !.chelsea_score = match.chelsea_score]]
    /\ pc' = [pc EXCEPT ![p] = "re_create"]
    /\ resp' = [resp EXCEPT ![p] = "none"]
    /\ wrote' = [wrote EXCEPT ![p] = FALSE]
    /\ UNCHANGED <<match, events, playerStats, teamStats, cacheLive, row>>
    /\ UNCHANGED liveFrame

(***************************************************************************)
(* Player.objects.get(id=event_data['player_id']).  Player.id is a         *)
(* UUIDField: a value that is not a UUID makes the lookup raise            *)
(* ValidationError before any query runs; a UUID no row has raises         *)
(* Player.DoesNotExist.                                                    *)
(***************************************************************************)
PlayerLookupAlwaysFinds(id) == "found"

PlayerLookup(id) ==
    IF id \in Players THEN "found"
    ELSE IF id = MalformedPlayer THEN "validation_error"
    ELSE "does_not_exist"

(***************************************************************************)
(* record_event: Player.objects.get, then MatchEvent.objects.create.       *)
(* Player.DoesNotExist returns the 'Player not found' failure; any other   *)
(* exception returns a failure whose error is the exception's text.        *)
(***************************************************************************)
RecordEventCreate(p) ==
    /\ pc[p] = "re_create"
    /\ IF PlayerLookup(req[p].player_id) # "found"
       THEN /\ resp' = [resp EXCEPT ![p] =
                          IF PlayerLookup(req[p].player_id) = "does_not_exist"
                          THEN "player_not_found" ELSE "error"]
            /\ pc' = [pc EXCEPT ![p] = "done"]
            /\ UNCHANGED <<events, wrote>>
       ELSE /\ events' = [events EXCEPT ![req[p].event_type] = @ + 1]
            /\ wrote' = [wrote EXCEPT ![p] = TRUE]
            /\ pc' = [pc EXCEPT ![p] =
                        IF req[p].event_type = "GOAL" THEN "re_goal" ELSE "re_get"]
            /\ UNCHANGED resp
    /\ inst' = [inst EXCEPT ![p] =
                  IF PlayerLookup(req[p].player_id) = "found" /\ req[p].event_type = "GOAL"
                  THEN @ ELSE NoInst]
    /\ req' = [req EXCEPT ![p].minute = 0]
    /\ UNCHANGED <<match, playerStats, teamStats, cacheLive, row>>
    /\ UNCHANGED liveFrame

(***************************************************************************)
(* _update_match_stats_for_event, GOAL: chelsea_score = F(..) + 1 saved    *)
(* with update_fields, an UPDATE the database evaluates; the post_save     *)
(* receivers of Match run inside save().  An exception of a receiver       *)
(* leaves save() and record_event's except clause returns failure.         *)
(***************************************************************************)
RecordEventGoal(p) ==
    /\ pc[p] = "re_goal"
    /\ match' = [match EXCEPT !.chelsea_score = FIncrement(@, inst[p].chelsea_score)]
    /\ wrote' = [wrote EXCEPT ![p] = TRUE]
    /\ \E raises \in GoalSignalRaises(inst[p].status) :
          IF raises
          THEN /\ resp' = [resp EXCEPT ![p] = "error"]
               /\ pc' = [pc EXCEPT ![p] = "done"]
          ELSE /\ pc' = [pc EXCEPT ![p] = "re_get"]
               /\ UNCHANGED resp
    /\ inst' = [inst EXCEPT ![p] = NoInst]
    /\ UNCHANGED <<events, playerStats, teamStats, cacheLive, req, row>>
    /\ UNCHANGED liveFrame

(***************************************************************************)
(* PlayerStats.objects.get_or_create, the lookup.  Two rows make get()     *)
(* raise MultipleObjectsReturned, which the inner except clause logs.      *)
(***************************************************************************)
RecordEventStatsGet(p) ==
    /\ pc[p] = "re_get"
    /\ LET rows == playerStats[req[p].player_id]
       IN  IF Len(rows) = 0
           THEN /\ pc' = [pc EXCEPT ![p] = "re_ins"]
                /\ UNCHANGED row
           ELSE IF Len(rows) = 1
           THEN /\ row' = [row EXCEPT ![p] = [idx |-> 1, goals |-> rows[1].goals]]
                /\ pc' = [pc EXCEPT ![p] = "re_save"]
           ELSE /\ pc' = [pc EXCEPT ![p] = "re_clear"]
                /\ UNCHANGED row
    /\ UNCHANGED <<match, events, playerStats, teamStats, cacheLive, req, inst, resp, wrote>>
    /\ UNCHANGED liveFrame

(***************************************************************************)
(* get_or_create, the INSERT: an IntegrityError of the unique constraint   *)
(* makes get_or_create look the row up again.                              *)
(***************************************************************************)
RecordEventStatsInsert(p) ==
    /\ pc[p] = "re_ins"
    /\ LET pl == req[p].player_id
       IN  IF UniqueTogetherAllowsInsert(pl)
           THEN /\ playerStats' = [playerStats EXCEPT ![pl] =
                                       Append(@, [goals |-> 0])]
                /\ row' = [row EXCEPT ![p] = [idx |-> Len(playerStats[pl]) + 1, goals |-> 0]]
                /\ wrote' = [wrote EXCEPT ![p] = TRUE]
                /\ pc' = [pc EXCEPT ![p] = "re_save"]
           ELSE /\ pc' = [pc EXCEPT ![p] = "re_get"]
                /\ UNCHANGED <<playerStats, row, wrote>>
    /\ UNCHANGED <<match, events, teamStats, cacheLive, req, inst, resp>>
    /\ UNCHANGED liveFrame

(***************************************************************************)
(* player_stats.<field> = F(<field>) + 1; player_stats.save(): an UPDATE   *)
(* of every column of the row, the incremented one computed by the         *)
(* database, the others taken from the in-memory instance.                 *)
(***************************************************************************)
RecordEventStatsSave(p) ==
    /\ pc[p] = "re_save"
    /\ LET pl == req[p].player_id
           i == row[p].idx
           cur == playerStats[pl][i]
           new == [goals |-> IF req[p].event_type = "GOAL"
                             THEN cur.goals + 1 ELSE row[p].goals]
       IN  /\ playerStats' = [playerStats EXCEPT ![pl][i] = new]
           /\ wrote' = [wrote EXCEPT ![p] = @ \/ new # cur]
    /\ row' = [row EXCEPT ![p] = NoRow]
    /\ pc' = [pc EXCEPT ![p] = "re_clear"]
    /\ UNCHANGED <<match, events, teamStats, cacheLive, req, inst, resp>>
    /\ UNCHANGED liveFrame

(***************************************************************************)
(* _clear_match_cache and the success return of record_event.              *)
(***************************************************************************)
RecordEventClear(p) ==
    /\ pc[p] = "re_clear"
    /\ cacheLive' = <<>>
    /\ resp' = [resp EXCEPT ![p] = "success"]
    /\ pc' = [pc EXCEPT ![p] = "done"]
    /\ UNCHANGED <<match, events, playerStats, teamStats, req, inst, row, wrote>>
    /\ UNCHANGED liveFrame

(***************************************************************************)
(* validators.py: the timing rule for events, the minute and the match     *)
(* status.  (Its event-type rule names HALF_TIME, which is no event type   *)
(* of MatchEvent.)                                                         *)
(***************************************************************************)
validate_event_timing_consistency(minute, match_status) ==
    /\ minute >= 0
    /\ ~(match_status \in {"SCHEDULED", "CANCELLED"} /\ minute > 0)

(***************************************************************************)
(* MatchEventsView.post: get_object_or_404(Match), event_data['match'] =   *)
(* match.id (form-encoded request data is immutable and the assignment     *)
(* raises), MatchEventSerializer(data).is_valid() and save(): a valid      *)
(* event is inserted and answered 201, an invalid one (a player id that    *)
(* names no Player) 400.  The score, the statistics and the live-match     *)
(* cache entry are not touched.                                            *)
(***************************************************************************)
MatchEventsPost(p) ==
    /\ pc[p] = "idle"
    /\ TotalEvents + PendingEvents < MaxEvents
    /\ \E pl \in PlayerIds, t \in EVENT_TYPES, minute \in EventMinutes, immutable \in BOOLEAN :
          /\ req' = [req EXCEPT ![p] = [op |-> "events_post", player_id |-> pl,
                                        event_type |-> t, minute |-> minute]]
          /\ IF immutable
             THEN /\ resp' = [resp EXCEPT ![p] = "raises"]
                  /\ UNCHANGED <<events, wrote>>
             ELSE IF PlayerLookup(pl) = "found"
             THEN /\ events' = [events EXCEPT ![t] = @ + 1]
                  /\ wrote' = [wrote EXCEPT ![p] = TRUE]
                  /\ resp' = [resp EXCEPT ![p] = "created"]
             ELSE /\ resp' = [resp EXCEPT ![p] = "invalid"]
                  /\ UNCHANGED <<events, wrote>>
    /\ pc' = [pc EXCEPT ![p] = "done"]
    /\ UNCHANGED <<match, playerStats, teamStats, cacheLive, inst, row>>
    /\ UNCHANGED liveFrame

(***************************************************************************)
(* LiveMatchUpdateView.post: get_object_or_404(Match) loads the instance;  *)
(* update_match_live assigns the score, status and kickoff of update_data  *)
(* to the in-memory instance (no database access yet).  The 'team_stats'   *)
(* and 'player_stats' entries of update_data are read later; the model     *)
(* draws each where the handler first reads it.                            *)
(***************************************************************************)
UpdateBegin(p, statuses, scores, kickoffs) ==
    /\ pc[p] = "idle"
    /\ \E score \in scores \cup {NoScore}, status \in statuses \cup {NoStatus},
          kickoff \in kickoffs :
          /\ inst' = [inst EXCEPT ![p] =
                [status |-> IF status # NoStatus THEN status ELSE match.status,
                 chelsea_score |-> IF score # NoScore THEN score[1] ELSE match.chelsea_score,
                 opponent_score |-> IF score # NoScore THEN score[2] ELSE match.opponent_score,
                 actual_kickoff |-> match.actual_kickoff \/ kickoff]]
          /\ req' = [req EXCEPT ![p] = [op |-> "update", has_score |-> score # NoScore]]
    /\ pc' = [pc EXCEPT ![p] = "um_save"]
    /\ resp' = [resp EXCEPT ![p] = "none"]
    /\ wrote' = [wrote EXCEPT ![p] = FALSE]
    /\ UNCHANGED <<match, events, playerStats, teamStats, cacheLive, row>>
    /\ UNCHANGED liveFrame

(***************************************************************************)
(* match.save(): an UPDATE of every column from the in-memory instance,    *)
(* the columns update_data did not name included.                          *)
(***************************************************************************)
UpdateSave(p) ==
    /\ pc[p] = "um_save"
    /\ match' = inst[p]
    /\ wrote' = [wrote EXCEPT ![p] = @ \/ inst[p] # match]
    /\ pc' = [pc EXCEPT ![p] = "um_team"]
    /\ inst' = [inst EXCEPT ![p] = NoInst]
    /\ req' = [req EXCEPT ![p] = [op |-> "update", has_score |-> FALSE]]
    /\ UNCHANGED <<events, playerStats, teamStats, cacheLive, row, resp>>
    /\ UNCHANGED liveFrame

(***************************************************************************)
(* _update_team_stats: TeamStats.objects.get_or_create(match, defaults).   *)
(* The one-to-one constraint makes the outcome of a race that of a serial  *)
(* run, so the lookup and the INSERT are one step.  Data naming a field    *)
(* TeamStats does not have ("bad") raises FieldError when the row has to   *)
(* be created and is skipped by hasattr when the row exists.               *)
(***************************************************************************)
UpdateTeamStats(p) ==
    /\ pc[p] = "um_team"
    /\ \E team_stats \in {"none", "ok", "bad"} :
          IF team_stats = "bad" /\ teamStats = "none"
          THEN /\ resp' = [resp EXCEPT ![p] = "error"]
               /\ pc' = [pc EXCEPT ![p] = "done"]
               /\ UNCHANGED <<teamStats, wrote>>
          ELSE /\ teamStats' = IF team_stats = "ok" THEN "row" ELSE teamStats
               /\ wrote' = [wrote EXCEPT ![p] =
                              @ \/ (team_stats = "ok" /\ teamStats = "none")]
               /\ pc' = [pc EXCEPT ![p] = "um_players"]
               /\ UNCHANGED resp
    /\ UNCHANGED <<match, events, playerStats, cacheLive, req, inst, row>>
    /\ UNCHANGED liveFrame

(***************************************************************************)
(* _update_player_stats, one entry of the list: player_data['player_id']   *)
(* raises KeyError for an entry without the key ("bad"), which only the    *)
(* except clause of update_match_live catches; Player.DoesNotExist         *)
(* ("unknown") is skipped; "ok" is the entry {player_id, goals: 1}.        *)
(***************************************************************************)
UpdatePlayerStatsBegin(p) ==
    /\ pc[p] = "um_players"
    /\ \E player_stats \in {"none", "ok", "bad", "unknown"} :
          IF player_stats = "bad"
          THEN /\ resp' = [resp EXCEPT ![p] = "error"]
               /\ pc' = [pc EXCEPT ![p] = "done"]
          ELSE /\ pc' = [pc EXCEPT ![p] = IF player_stats = "ok" THEN "um_get" ELSE "um_clear"]
               /\ UNCHANGED resp
    /\ UNCHANGED <<match, events, playerStats, teamStats, cacheLive, req, inst, row, wrote>>
    /\ UNCHANGED liveFrame

(***************************************************************************)
(* _update_player_stats: PlayerStats.objects.get_or_create, the lookup.    *)
(* MultipleObjectsReturned is not caught by _update_player_stats.          *)
(***************************************************************************)
UpdatePlayerStatsGet(p) ==
    /\ pc[p] = "um_get"
    /\ LET rows == playerStats[KnownPlayer]
       IN  IF Len(rows) = 0
           THEN /\ pc' = [pc EXCEPT ![p] = "um_ins"]
                /\ UNCHANGED <<resp, row>>
           ELSE IF Len(rows) = 1
           THEN /\ row' = [row EXCEPT ![p] = [idx |-> 1, goals |-> rows[1].goals]]
                /\ pc' = [pc EXCEPT ![p] = "um_upd"]
                /\ UNCHANGED resp
           ELSE /\ resp' = [resp EXCEPT ![p] = "error"]
                /\ pc' = [pc EXCEPT ![p] = "done"]
                /\ UNCHANGED row
    /\ UNCHANGED <<match, events, playerStats, teamStats, cacheLive, req, inst, wrote>>
    /\ UNCHANGED liveFrame

(***************************************************************************)
(* get_or_create, the INSERT with defaults = player_data (goals = 1).      *)
(***************************************************************************)
UpdatePlayerStatsInsert(p) ==
    /\ pc[p] = "um_ins"
    /\ IF UniqueTogetherAllowsInsert(KnownPlayer)
       THEN /\ playerStats' = [playerStats EXCEPT ![KnownPlayer] =
                                   Append(@, [goals |-> 1])]
            /\ wrote' = [wrote EXCEPT ![p] = TRUE]
            /\ pc' = [pc EXCEPT ![p] = "um_clear"]
       ELSE /\ pc' = [pc EXCEPT ![p] = "um_get"]
            /\ UNCHANGED <<playerStats, wrote>>
    /\ UNCHANGED <<match, events, teamStats, cacheLive, req, inst, row, resp>>
    /\ UNCHANGED liveFrame

(***************************************************************************)
(* not created: setattr of every field of player_data, player_stats.save() *)
(* writes every column from the in-memory instance.                        *)
(***************************************************************************)
UpdatePlayerStatsSave(p) ==
    /\ pc[p] = "um_upd"
    /\ LET i == row[p].idx
           cur == playerStats[KnownPlayer][i]
           new == [goals |-> 1]
       IN  /\ playerStats' = [playerStats EXCEPT ![KnownPlayer][i] = new]
           /\ wrote' = [wrote EXCEPT ![p] = @ \/ new # cur]
    /\ row' = [row EXCEPT ![p] = NoRow]
    /\ pc' = [pc EXCEPT ![p] = "um_clear"]
    /\ UNCHANGED <<match, events, teamStats, cacheLive, req, inst, resp>>
    /\ UNCHANGED liveFrame

(***************************************************************************)
(* _clear_match_cache and the success return of update_match_live.         *)
(***************************************************************************)
UpdateClear(p) ==
    /\ pc[p] = "um_clear"
    /\ cacheLive' = <<>>
    /\ resp' = [resp EXCEPT ![p] = "success"]
    /\ pc' = [pc EXCEPT ![p] = "done"]
    /\ UNCHANGED <<match, events, playerStats, teamStats, req, inst, row, wrote>>
    /\ UNCHANGED liveFrame

(***************************************************************************)
(* The view returns Response(result); the worker takes the next request.   *)
(***************************************************************************)
RequestReturn(p) ==
    /\ pc[p] = "done"
    /\ pc' = [pc EXCEPT ![p] = "idle"]
    /\ req' = [req EXCEPT ![p] = NoReq]
    /\ inst' = [inst EXCEPT ![p] = NoInst]
    /\ row' = [row EXCEPT ![p] = NoRow]
    /\ resp' = [resp EXCEPT ![p] = "none"]
    /\ wrote' = [wrote EXCEPT ![p] = FALSE]
    /\ UNCHANGED <<match, events, playerStats, teamStats, cacheLive>>
    /\ UNCHANGED liveFrame

(***************************************************************************)
(* LiveTrackingView.get and LiveTracker.get_live_data.  The view filters   *)
(* the matches with status LIVE or HALF_TIME; len(live_matches) loads the  *)
(* instances.  _get_live_match_data returns the cached entry when there is *)
(* one; otherwise it builds the data, status and score from the loaded     *)
(* instance, events from a query, stores it in the cache and returns it.   *)
(***************************************************************************)
LiveStatuses == {"LIVE", "HALF_TIME"}
NoData == <<>>

LiveMatchData(instance) ==
    [status |-> instance.status,
     chelsea_score |-> instance.chelsea_score,
     opponent_score |-> instance.opponent_score,
     recent_events |-> events]

ReadInit ==
    /\ rdPc = "idle"
    /\ rdInst = NoInst
    /\ rdOut = NoData

ReadBegin ==
    /\ rdPc = "idle"
    /\ match.status \in LiveStatuses
    /\ rdInst' = [match EXCEPT !.actual_kickoff = FALSE]
    /\ rdPc' = "get"
    /\ rdOut' = NoData
    /\ UNCHANGED liveVars
    /\ UNCHANGED readFrame

ReadCacheGet ==
    /\ rdPc = "get"
    /\ IF cacheLive # <<>>
       THEN /\ rdOut' = cacheLive
            /\ rdPc' = "done"
            /\ rdInst' = NoInst
       ELSE /\ rdPc' = "build"
            /\ UNCHANGED <<rdInst, rdOut>>
    /\ UNCHANGED liveVars
    /\ UNCHANGED readFrame

ReadBuildAndCache ==
    /\ rdPc = "build"
    /\ cacheLive' = <<LiveMatchData(rdInst)>>
    /\ rdOut' = <<LiveMatchData(rdInst)>>
    /\ rdPc' = "done"
    /\ rdInst' = NoInst
    /\ UNCHANGED <<match, events, playerStats, teamStats, pc, req, inst, row, resp, wrote>>
    /\ UNCHANGED readFrame

ReadReturn ==
    /\ rdPc = "done"
    /\ rdPc' = "idle"
    /\ rdOut' = NoData
    /\ UNCHANGED rdInst
    /\ UNCHANGED liveVars
    /\ UNCHANGED readFrame

\* the cache entry reaches its timeout of 30 seconds
LiveCacheExpire ==
    /\ cacheLive # <<>>
    /\ cacheLive' = <<>>
    /\ UNCHANGED <<match, events, playerStats, teamStats, pc, req, inst, row, resp, wrote>>
    /\ UNCHANGED liveFrame

(***************************************************************************)
(* The admin action mark_matches_completed: queryset.update(status=        *)
(* 'COMPLETED'), one UPDATE of the status column that sends no signal.     *)
(***************************************************************************)
MarkMatchesCompleted ==
    /\ match.status # "COMPLETED"
    /\ match' = [match EXCEPT !.status = "COMPLETED"]
    /\ UNCHANGED <<events, playerStats, teamStats, cacheLive, pc, req, inst, row, resp, wrote>>
    /\ UNCHANGED liveFrame

(***************************************************************************)
(* Signals and dashboard widgets.  SpecCache: the Match and the Player row *)
(* are saved and deleted (admin, ModelViewSet), the post_save and          *)
(* post_delete receivers of signals.py run inside save() and delete(), and *)
(* the dashboard calls the cached widgets of WidgetManagers.               *)
(***************************************************************************)
MatchSignalKeys == {"recent_matches", "upcoming_fixtures", "season_statistics"}
PlayerSignalKeys == {"active_players_list", "squad_overview"}
WidgetNames == {"recent_matches", "overview_stats", "fitness_overview", "squad_availability"}
WidgetKey(w) ==
    CASE w = "recent_matches" -> "widget_recent_matches"
      [] w = "overview_stats" -> "widget_overview_stats"
      [] w = "fitness_overview" -> "widget_fitness_overview"
      [] w = "squad_availability" -> "widget_squad_availability"
WidgetKeys == {WidgetKey(w) : w \in WidgetNames}
CacheKeys == MatchSignalKeys \cup PlayerSignalKeys \cup WidgetKeys

DashStatuses == {"SCHEDULED", "FULL_TIME"}
DashScores == {0, 1}
FitnessInputs == {60, 100}

NoMatch == [exists |-> FALSE, status |-> NoStatus, chelsea_score |-> 0, opponent_score |-> 0]
NoPlayer == [exists |-> FALSE, is_injured |-> FALSE, fitness_level |-> 0]
MatchRows == [exists : {TRUE}, status : DashStatuses, chelsea_score : DashScores,
              opponent_score : {0}]
PlayerRows == [exists : {TRUE}, is_injured : BOOLEAN, fitness_level : FitnessInputs]
NoRet == [widget |-> "none", raised |-> FALSE, data |-> <<>>]

CacheDelete(c, keys) == [k \in CacheKeys |-> IF k \in keys THEN <<>> ELSE c[k]]

(***************************************************************************)
(* The keys the receivers delete.  match_post_save: the three deletes      *)
(* follow the if/else on created and status and run on every path;         *)
(* player_post_save likewise; the post_delete receivers delete the same.   *)
(***************************************************************************)
match_post_save_skips_completed(created, status) ==
    IF ~created /\ status \in {"COMPLETED", "FULL_TIME"} THEN {} ELSE MatchSignalKeys

match_post_save(created, status) == MatchSignalKeys

player_post_save(created, is_injured, fitness_level) == PlayerSignalKeys

match_post_delete == MatchSignalKeys

player_post_delete == PlayerSignalKeys

(***************************************************************************)
(* What the widgets compute from the database on a cache miss.             *)
(***************************************************************************)
get_recent_matches_widget ==
    [title |-> "Recent Matches",
     matches |-> IF dbMatch.exists /\ dbMatch.status \in {"COMPLETED", "FULL_TIME"}
                 THEN <<[score |-> <<dbMatch.chelsea_score, dbMatch.opponent_score>>,
                         result |-> Result(dbMatch)]>>
                 ELSE <<>>]

FitnessCategory(fitness) ==
    IF fitness >= 90 THEN "excellent"
    ELSE IF fitness >= 80 THEN "good"
    ELSE IF fitness >= 70 THEN "average"
    ELSE IF fitness >= 60 THEN "poor"
    ELSE "critical"

get_fitness_overview_widget ==
    [title |-> "Squad Fitness Overview",
     total_players |-> IF dbPlayer.exists THEN 1 ELSE 0,
     injured_players |-> IF dbPlayer.exists /\ dbPlayer.is_injured THEN 1 ELSE 0,
     low_fitness_players |-> IF dbPlayer.exists /\ ~dbPlayer.is_injured
                                /\ dbPlayer.fitness_level < 70 THEN 1 ELSE 0,
     fitness_distribution |-> IF dbPlayer.exists
                              THEN <<FitnessCategory(dbPlayer.fitness_level)>> ELSE <<>>]

get_squad_availability_widget ==
    [title |-> "Squad Availability by Position",
     total |-> IF dbPlayer.exists THEN 1 ELSE 0,
     available |-> IF dbPlayer.exists /\ ~dbPlayer.is_injured
                      /\ dbPlayer.fitness_level >= 70 THEN 1 ELSE 0,
     injured |-> IF dbPlayer.exists /\ dbPlayer.is_injured THEN 1 ELSE 0,
     low_fitness |-> IF dbPlayer.exists /\ ~dbPlayer.is_injured
                        /\ dbPlayer.fitness_level < 70 THEN 1 ELSE 0]

WidgetData(w) ==
    CASE w = "recent_matches" -> get_recent_matches_widget
      [] w = "fitness_overview" -> get_fitness_overview_widget
      [] w = "squad_availability" -> get_squad_availability_widget

(***************************************************************************)
(* get_overview_stats_widget filters the queryset on result='WIN'; result  *)
(* is a property of Match, not a column, and QuerySet.filter raises        *)
(* FieldError for it on every cache miss, before anything is cached.       *)
(***************************************************************************)
WidgetRaisesOnMiss(w) == w = "overview_stats"

CacheInit ==
    /\ dbMatch = NoMatch
    /\ dbPlayer = NoPlayer
    /\ cache = [k \in CacheKeys |-> <<>>]
    /\ lastOp = "none"
    /\ ret = NoRet

(***************************************************************************)
(* analyze_result_patterns, the last post_save receiver of Match, filters  *)
(* a sliced queryset when five finished matches of the last 30 days exist; *)
(* the filter raises, after match_post_save has run, and save() raises.    *)
(* Whether five such matches exist is an input of the save.                *)
(***************************************************************************)
analyze_result_patterns_raises(status) ==
    IF status \in {"COMPLETED", "FULL_TIME"} THEN BOOLEAN ELSE {FALSE}

(***************************************************************************)
(* Match.save() and Match.delete() with their receivers.                   *)
(***************************************************************************)
MatchCreate ==
    /\ ~dbMatch.exists
    /\ \E m \in MatchRows : \E raises \in analyze_result_patterns_raises(m.status) :
          /\ dbMatch' = m
          /\ cache' = CacheDelete(cache, match_post_save(TRUE, m.status))
          /\ lastOp' = IF raises THEN "match_save_raised" ELSE "match_created"
    /\ ret' = NoRet
    /\ UNCHANGED dbPlayer
    /\ UNCHANGED cacheFrame

MatchUpdate ==
    /\ dbMatch.exists
    /\ \E m \in MatchRows : \E raises \in analyze_result_patterns_raises(m.status) :
          /\ dbMatch' = m
          /\ cache' = CacheDelete(cache, match_post_save(FALSE, m.status))
          /\ lastOp' = IF raises THEN "match_save_raised" ELSE "match_updated"
    /\ ret' = NoRet
    /\ UNCHANGED dbPlayer
    /\ UNCHANGED cacheFrame

MatchDelete ==
    /\ dbMatch.exists
    /\ dbMatch' = NoMatch
    /\ cache' = CacheDelete(cache, match_post_delete)
    /\ lastOp' = "match_deleted"
    /\ ret' = NoRet
    /\ UNCHANGED dbPlayer
    /\ UNCHANGED cacheFrame

(***************************************************************************)
(* Player.save() and Player.delete() with their receivers.                 *)
(***************************************************************************)
PlayerCreate ==
    /\ ~dbPlayer.exists
    /\ \E pl \in PlayerRows :
          /\ dbPlayer' = pl
          /\ cache' = CacheDelete(cache, player_post_save(TRUE, pl.is_injured,
                                                          pl.fitness_level))
    /\ lastOp' = "player_created"
    /\ ret' = NoRet
    /\ UNCHANGED dbMatch
    /\ UNCHANGED cacheFrame

PlayerUpdate ==
    /\ dbPlayer.exists
    /\ \E pl \in PlayerRows :
          /\ dbPlayer' = pl
          /\ cache' = CacheDelete(cache, player_post_save(FALSE, pl.is_injured,
                                                          pl.fitness_level))
    /\ lastOp' = "player_updated"
    /\ ret' = NoRet
    /\ UNCHANGED dbMatch
    /\ UNCHANGED cacheFrame

PlayerDelete ==
    /\ dbPlayer.exists
    /\ dbPlayer' = NoPlayer
    /\ cache' = CacheDelete(cache, player_post_delete)
    /\ lastOp' = "player_deleted"
    /\ ret' = NoRet
    /\ UNCHANGED dbMatch
    /\ UNCHANGED cacheFrame

(***************************************************************************)
(* A cached widget of WidgetManagers: cache.get on the widget's key; a hit *)
(* is returned as it is, a miss computes the data, stores it under the     *)
(* key and returns it.                                                     *)
(***************************************************************************)
WidgetCall(w) ==
    /\ IF cache[WidgetKey(w)] # <<>>
       THEN /\ ret' = [widget |-> w, raised |-> FALSE, data |-> cache[WidgetKey(w)]]
            /\ UNCHANGED cache
       ELSE IF WidgetRaisesOnMiss(w)
       THEN /\ ret' = [widget |-> w, raised |-> TRUE, data |-> <<>>]
            /\ UNCHANGED cache
       ELSE /\ ret' = [widget |-> w, raised |-> FALSE, data |-> <<WidgetData(w)>>]
            /\ cache' = [cache EXCEPT ![WidgetKey(w)] = <<WidgetData(w)>>]
    /\ lastOp' = "widget"
    /\ UNCHANGED <<dbMatch, dbPlayer>>
    /\ UNCHANGED cacheFrame

(***************************************************************************)
(* WidgetManagers.refresh_widget_cache(widget_name).                       *)
(***************************************************************************)
RefreshWidgetCache(w) ==
    /\ cache' = CacheDelete(cache, {WidgetKey(w)})
    /\ lastOp' = "refresh"
    /\ ret' = NoRet
    /\ UNCHANGED <<dbMatch, dbPlayer>>
    /\ UNCHANGED cacheFrame

(***************************************************************************)
(* The cache backend: an entry expires after its timeout (300 s for the    *)
(* widgets), and any code of the process may store a value under the keys  *)
(* the receivers invalidate.                                               *)
(***************************************************************************)
CacheExpire(k) ==
    /\ cache[k] # <<>>
    /\ cache' = CacheDelete(cache, {k})
    /\ lastOp' = "expired"
    /\ ret' = NoRet
    /\ UNCHANGED <<dbMatch, dbPlayer>>
    /\ UNCHANGED cacheFrame

CacheSet(k) ==
    /\ cache[k] = <<>>
    /\ cache' = [cache EXCEPT ![k] = <<"cached">>]
    /\ lastOp' = "cache_set"
    /\ ret' = NoRet
    /\ UNCHANGED <<dbMatch, dbPlayer>>
    /\ UNCHANGED cacheFrame

NextCache ==
    \/ MatchCreate
    \/ MatchUpdate
    \/ MatchDelete
    \/ PlayerCreate
    \/ PlayerUpdate
    \/ PlayerDelete
    \/ \E w \in WidgetNames : WidgetCall(w)
    \/ \E w \in WidgetNames : RefreshWidgetCache(w)
    \/ \E k \in WidgetKeys : CacheExpire(k)
    \/ \E k \in MatchSignalKeys \cup PlayerSignalKeys : CacheSet(k)

(***************************************************************************)
(* API views.  SpecViews: a request is dispatched to a view of views.py,   *)
(* the view calls its service, and the service raises a ChelseaFCException *)
(* subclass when the data it needs is missing.                             *)
(***************************************************************************)
MaxMatches == 6
MaxStats == 2
MinTrendMatches == 5

Views == {"PerformanceTrendsView", "PlayerPerformanceView", "PowerBIExportView"}

ViewInit ==
    /\ vMatches = 0
    /\ vStats = 0
    /\ vView = "none"
    /\ vPc = "idle"
    /\ vResult = "none"

\* a match of the trend period reaches FULL_TIME or COMPLETED
CompleteMatch ==
    /\ vPc = "idle"
    /\ vMatches < MaxMatches
    /\ vMatches' = vMatches + 1
    /\ UNCHANGED <<vStats, vView, vPc, vResult>>
    /\ UNCHANGED viewFrame

\* a PlayerStats row of the requested player is stored
StorePlayerStats ==
    /\ vPc = "idle"
    /\ vStats < MaxStats
    /\ vStats' = vStats + 1
    /\ UNCHANGED <<vMatches, vView, vPc, vResult>>
    /\ UNCHANGED viewFrame

ViewDispatch(v) ==
    /\ vPc = "idle"
    /\ vView' = v
    /\ vPc' = "service"
    /\ vResult' = "none"
    /\ UNCHANGED <<vMatches, vStats>>
    /\ UNCHANGED viewFrame

(***************************************************************************)
(* TrendAnalyzer.analyze_performance_trends raises InsufficientDataError   *)
(* below five completed matches; CareerAnalyzer.get_career_overview raises *)
(* it when the player has no PlayerStats.                                  *)
(***************************************************************************)
analyze_performance_trends_raises == vMatches < MinTrendMatches

get_career_overview_raises == vStats = 0

(***************************************************************************)
(* PerformanceTrendsView.get and PlayerPerformanceView.get call the        *)
(* service with no try/except: an exception of the service leaves the view.*)
(***************************************************************************)
PerformanceTrendsGet ==
    /\ vPc = "service"
    /\ vView = "PerformanceTrendsView"
    /\ vResult' = IF analyze_performance_trends_raises THEN "propagated" ELSE "response"
    /\ vPc' = "done"
    /\ UNCHANGED <<vMatches, vStats, vView>>
    /\ UNCHANGED viewFrame

PlayerPerformanceGet ==
    /\ vPc = "service"
    /\ vView = "PlayerPerformanceView"
    /\ vResult' = IF get_career_overview_raises THEN "propagated" ELSE "response"
    /\ vPc' = "done"
    /\ UNCHANGED <<vMatches, vStats, vView>>
    /\ UNCHANGED viewFrame

(***************************************************************************)
(* PowerBIExportView.post wraps the export and the upload in try/except    *)
(* Exception and answers a failure with {'error': ...} and status 500.     *)
(***************************************************************************)
PowerBIExportPost ==
    /\ vPc = "service"
    /\ vView = "PowerBIExportView"
    /\ \E failed \in BOOLEAN :
          vResult' = IF failed THEN "error_response" ELSE "response"
    /\ vPc' = "done"
    /\ UNCHANGED <<vMatches, vStats, vView>>
    /\ UNCHANGED viewFrame

ViewReturn ==
    /\ vPc = "done"
    /\ vPc' = "idle"
    /\ vView' = "none"
    /\ vResult' = "none"
    /\ UNCHANGED <<vMatches, vStats>>
    /\ UNCHANGED viewFrame

NextViews ==
    \/ CompleteMatch
    \/ StorePlayerStats
    \/ \E v \in Views : ViewDispatch(v)
    \/ PerformanceTrendsGet
    \/ PlayerPerformanceGet
    \/ PowerBIExportPost
    \/ ViewReturn

(***************************************************************************)
(* Calculations.  SpecCalc applies the percentage and age functions to     *)
(* arguments drawn from bounded sets.  Percentages rounded to two decimals *)
(* are integers counting hundredths of a percent; an unrounded quotient is *)
(* the pair of its numerator and denominator.                              *)
(***************************************************************************)
MaxPasses == 4
MaxRows == 2
MaxYears == 4

\* round(n / d) to the nearest integer, ties to even (Python's round)
RoundDiv(n, d) ==
    LET q == n \div d
        r == n % d
    IN  IF 2 * r < d THEN q
        ELSE IF 2 * r > d THEN q + 1
        ELSE IF q % 2 = 0 THEN q ELSE q + 1

RECURSIVE SumCompleted(_)
SumCompleted(rows) ==
    IF rows = <<>> THEN 0 ELSE Head(rows).passes_completed + SumCompleted(Tail(rows))

RECURSIVE SumAttempted(_)
SumAttempted(rows) ==
    IF rows = <<>> THEN 0 ELSE Head(rows).passes_attempted + SumAttempted(Tail(rows))

\* utils.calculate_pass_accuracy
calculate_pass_accuracy_truncating(passes_completed, passes_attempted) ==
    IF passes_attempted = 0 THEN 0
    ELSE (passes_completed * 10000) \div passes_attempted

calculate_pass_accuracy(passes_completed, passes_attempted) ==
    IF passes_attempted = 0 THEN 0
    ELSE RoundDiv(passes_completed * 10000, passes_attempted)

\* LiveTracker._calculate_pass_accuracy: the unrounded percentage
LiveTracker_calculate_pass_accuracy(stats) ==
    IF stats.passes_attempted = 0 THEN [num |-> 0, den |-> 1]
    ELSE [num |-> stats.passes_completed * 100, den |-> stats.passes_attempted]

\* LiveTracker._get_live_player_performance reports round(.., 2) of it
LiveTracker_reported_pass_accuracy(stats) ==
    LET q == LiveTracker_calculate_pass_accuracy(stats)
    IN  RoundDiv(q.num * 100, q.den)

\* PerformanceTracker._calculate_pass_accuracy over the rows of a queryset
PerformanceTracker_calculate_pass_accuracy(stats) ==
    LET total_completed == SumCompleted(stats)
        total_attempted == SumAttempted(stats)
    IN  IF total_attempted = 0 THEN 0
        ELSE RoundDiv(total_completed * 10000, total_attempted)

\* utils.calculate_win_rate
calculate_win_rate(wins, total_matches) ==
    IF total_matches = 0 THEN 0
    ELSE RoundDiv(wins * 10000, total_matches)

\* FormationEngine._calculate_win_rate
FormationEngine_calculate_win_rate(matches) ==
    IF matches = <<>> THEN 0
    ELSE LET wins == Cardinality({i \in 1..Len(matches) : Result(matches[i]) = "WIN"})
         IN  RoundDiv(wins * 10000, Len(matches))

(***************************************************************************)
(* Calendar dates (datetime.date): proleptic Gregorian ordinals.           *)
(***************************************************************************)
IsLeap(y) == (y % 4 = 0) /\ ((y % 100 # 0) \/ (y % 400 = 0))

DaysInMonth(y, m) ==
    IF m = 2 THEN (IF IsLeap(y) THEN 29 ELSE 28)
    ELSE IF m \in {4, 6, 9, 11} THEN 30 ELSE 31

RECURSIVE DaysBeforeMonth(_, _)
DaysBeforeMonth(y, m) ==
    IF m = 1 THEN 0 ELSE DaysBeforeMonth(y, m - 1) + DaysInMonth(y, m - 1)

DaysBeforeYear(y) ==
    LET p == y - 1 IN 365 * p + (p \div 4) - (p \div 100) + (p \div 400)

ToOrdinal(date) == DaysBeforeYear(date.y) + DaysBeforeMonth(date.y, date.m) + date.d

Years == 2000..(2000 + MaxYears)
Dates == {date \in [y : Years, m : 1..12, d : {1, 28, 29, 30, 31}] :
             date.d <= DaysInMonth(date.y, date.m)}

\* Player.age and utils.calculate_age: (today - date_of_birth).days // 365
PlayerAge(date_of_birth, today) == (ToOrdinal(today) - ToOrdinal(date_of_birth)) \div 365

calculate_age(birth_date, today) == (ToOrdinal(today) - ToOrdinal(birth_date)) \div 365

PassRows == [passes_completed : 0..MaxPasses, passes_attempted : 0..MaxPasses]
CalcMatchRows == [status : {"SCHEDULED", "FULL_TIME"}, chelsea_score : DashScores,
                  opponent_score : DashScores]

CalcInit ==
    /\ calcOp = "none"
    /\ calcArgs = <<>>
    /\ calcOut = <<>>

CalcPassAccuracy ==
    /\ calcOp = "none"
    /\ \E n \in 1..MaxRows : \E rows \in [1..n -> PassRows] :
          /\ calcArgs' = rows
          /\ calcOut' =
               [utils |-> calculate_pass_accuracy(rows[1].passes_completed,
                                                  rows[1].passes_attempted),
                live |-> LiveTracker_calculate_pass_accuracy(rows[1]),
                live_reported |-> LiveTracker_reported_pass_accuracy(rows[1]),
                tracker |-> PerformanceTracker_calculate_pass_accuracy(<<rows[1]>>),
                utils_total |-> calculate_pass_accuracy(SumCompleted(rows),
                                                        SumAttempted(rows)),
                tracker_total |-> PerformanceTracker_calculate_pass_accuracy(rows)]
    /\ calcOp' = "pass_accuracy"
    /\ UNCHANGED calcFrame

CalcWinRate ==
    /\ calcOp = "none"
    /\ \E n \in 0..MaxRows : \E matches \in [1..n -> CalcMatchRows] :
          /\ calcArgs' = matches
          /\ calcOut' =
               [utils |-> calculate_win_rate(
                             Cardinality({i \in 1..n : Result(matches[i]) = "WIN"}), n),
                formation |-> FormationEngine_calculate_win_rate(matches)]
    /\ calcOp' = "win_rate"
    /\ UNCHANGED calcFrame

CalcAge ==
    /\ calcOp = "none"
    /\ \E birth \in Dates, today \in Dates :
          /\ ToOrdinal(birth) <= ToOrdinal(today)
          /\ calcArgs' = <<birth, today>>
          /\ calcOut' = [age |-> PlayerAge(birth, today),
                         utils |-> calculate_age(birth, today)]
    /\ calcOp' = "age"
    /\ UNCHANGED calcFrame

CalcReturn ==
    /\ calcOp # "none"
    /\ calcOp' = "none"
    /\ calcArgs' = <<>>
    /\ calcOut' = <<>>
    /\ UNCHANGED calcFrame

NextCalc ==
    \/ CalcPassAccuracy
    \/ CalcWinRate
    \/ CalcAge
    \/ CalcReturn

(***************************************************************************)
(* FitnessMonitor.get_fitness_status.  SpecFitness follows the calls the   *)
(* method makes while it builds its dictionary.  MaxDepth stands for the   *)
(* interpreter's recursion limit.                                          *)
(***************************************************************************)
MaxDepth == 4
FitnessLevels == {0, 50, 60, 69, 70, 80, 84, 85, 90, 100}

FitInit ==
    /\ fPlayer = [fitness_level |-> 100, recent_stats |-> FALSE]
    /\ fPc = "idle"
    /\ fDepth = 0
    /\ fOut = "none"

\* PlayerViewSet.fitness: monitor.get_fitness_status(player)
FitnessRequest ==
    /\ fPc = "idle"
    /\ \E f \in FitnessLevels, st \in BOOLEAN :
          fPlayer' = [fitness_level |-> f, recent_stats |-> st]
    /\ fPc' = "trend"
    /\ fDepth' = 1
    /\ fOut' = "none"
    /\ UNCHANGED fitFrame

(***************************************************************************)
(* _calculate_fitness_trend: for a PlayerStats row of a recent finished    *)
(* match it adds min(1.0, distance_covered / 12000), a Decimal, to a       *)
(* float, which raises TypeError; without such a row it returns 'stable'.  *)
(***************************************************************************)
FitnessTrend ==
    /\ fPc = "trend"
    /\ IF fPlayer.recent_stats
       THEN /\ fOut' = "TypeError"
            /\ fPc' = "done"
            /\ fDepth' = 0
       ELSE /\ fPc' = "analyses"
            /\ UNCHANGED <<fOut, fDepth>>
    /\ UNCHANGED fPlayer
    /\ UNCHANGED fitFrame

\* _analyse_workload, _assess_recovery_status, _calculate_injury_risk
FitnessAnalyses ==
    /\ fPc = "analyses"
    /\ fPc' = "recommendations"
    /\ UNCHANGED <<fPlayer, fDepth, fOut>>
    /\ UNCHANGED fitFrame

(***************************************************************************)
(* _generate_fitness_recommendations: its first statement calls            *)
(* self.get_fitness_status(player) again, on every path.  At the recursion *)
(* limit the interpreter raises RecursionError, which nothing catches.     *)
(***************************************************************************)
FitnessRecommendations ==
    /\ fPc = "recommendations"
    /\ IF fDepth < MaxDepth
       THEN /\ fDepth' = fDepth + 1
            /\ fPc' = "trend"
            /\ UNCHANGED fOut
       ELSE /\ fOut' = "RecursionError"
            /\ fPc' = "done"
            /\ fDepth' = 0
    /\ UNCHANGED fPlayer
    /\ UNCHANGED fitFrame

FitnessReturn ==
    /\ fPc = "done"
    /\ fPc' = "idle"
    /\ fOut' = "none"
    /\ UNCHANGED <<fPlayer, fDepth>>
    /\ UNCHANGED fitFrame

NextFitness ==
    \/ FitnessRequest
    \/ FitnessTrend
    \/ FitnessAnalyses
    \/ FitnessRecommendations
    \/ FitnessReturn

(***************************************************************************)
(* SpecFitUpdate: the writers of Player.fitness_level.                     *)
(***************************************************************************)
MaxFitness == 110
MaxAge == 31

MinutesPlayed == {0, 90}
DistanceCovered == {-9999, 0, 9999}
Sprints == {0, 25}
Cards == {0, 1}
DaysSince == {-1, 0, 1, 3}

Minimum(a, b) == IF a <= b THEN a ELSE b

Maximum(a, b) == IF a >= b THEN a ELSE b

\* int(n / d) of Python: truncation towards zero
IntOf(n, d) == IF n >= 0 THEN n \div d ELSE -((-n) \div d)

(***************************************************************************)
(* update_fitness_after_match, int(fitness_reduction).  intensity_factor * *)
(* 20 is (minutes_played / 90) * 8 + (distance_covered / 12000) * 6 +      *)
(* (sprints / 25) * 6, kept here in units of 1/18000; the age factor 1.2   *)
(* or 0.8 brings it to units of 1/180000.  On the values drawn here the    *)
(* floating-point evaluation truncates to the same integer.                *)
(***************************************************************************)
FitnessReduction(stats, age) ==
    LET intensity == 1600 * stats.minutes_played + 9 * stats.distance_covered
                     + 4320 * stats.sprints
        capped == Minimum(15 * 18000, intensity)
        carded == capped + (IF stats.yellow_cards > 0 THEN 2 * 18000 ELSE 0)
                         + (IF stats.red_cards > 0 THEN 5 * 18000 ELSE 0)
        aged == carded * (IF age > 30 THEN 12 ELSE IF age < 22 THEN 8 ELSE 10)
    IN  IntOf(aged, 180000)

\* schedule_fitness_updates, int(recovery_rate)
RecoveryRate(days_since, age) ==
    IntOf(Minimum(5, days_since * 2) * (IF age > 30 THEN 8 ELSE IF age < 22 THEN 12 ELSE 10),
          10)

UpInit ==
    /\ uPlayer = [fitness_level |-> 100, is_injured |-> FALSE, age |-> 21]
    /\ uLast = "none"

(***************************************************************************)
(* update_fitness_after_match(match) for the PlayerStats row the player    *)
(* has in the match: new_fitness = max(0, fitness_level -                  *)
(* int(fitness_reduction)), saved with update_fields.                      *)
(***************************************************************************)
UpdateFitnessAfterMatch ==
    /\ \E m \in MinutesPlayed, dist \in DistanceCovered, sp \in Sprints,
          yc \in Cards, rc \in Cards :
          LET stats == [minutes_played |-> m, distance_covered |-> dist, sprints |-> sp,
                        yellow_cards |-> yc, red_cards |-> rc]
              new_fitness == Maximum(0, uPlayer.fitness_level
                                        - FitnessReduction(stats, uPlayer.age))
          IN  /\ new_fitness <= MaxFitness
              /\ uPlayer' = [uPlayer EXCEPT !.fitness_level = new_fitness]
    /\ uLast' = "update_fitness_after_match"
    /\ UNCHANGED upFrame

(***************************************************************************)
(* schedule_fitness_updates for the player: skipped when injured, without  *)
(* a finished match or with days_since <= 0; else new_fitness = min(100,   *)
(* fitness_level + int(recovery_rate)).                                    *)
(***************************************************************************)
ScheduleFitnessUpdates ==
    /\ \E last_match \in BOOLEAN, days_since \in DaysSince :
          LET new_fitness == Minimum(100, uPlayer.fitness_level
                                          + RecoveryRate(days_since, uPlayer.age))
          IN  IF /\ ~uPlayer.is_injured /\ last_match /\ days_since > 0
                 /\ new_fitness # uPlayer.fitness_level
              THEN /\ uPlayer' = [uPlayer EXCEPT !.fitness_level = new_fitness]
                   /\ uLast' = "schedule_fitness_updates"
              ELSE UNCHANGED <<uPlayer, uLast>>
    /\ UNCHANGED upFrame

\* admin action mark_as_fit: queryset.update(is_injured=False, fitness_level=100)
MarkAsFit ==
    /\ uPlayer' = [uPlayer EXCEPT !.is_injured = FALSE, !.fitness_level = 100]
    /\ uLast' = "mark_as_fit"
    /\ UNCHANGED upFrame

\* admin action mark_as_injured: queryset.update(is_injured=True)
MarkAsInjured ==
    /\ ~uPlayer.is_injured
    /\ uPlayer' = [uPlayer EXCEPT !.is_injured = TRUE]
    /\ uLast' = "mark_as_injured"
    /\ UNCHANGED upFrame

\* Player.age is computed from today's date: it grows as time passes
YearPasses ==
    /\ uPlayer.age < MaxAge
    /\ uPlayer' = [uPlayer EXCEPT !.age = @ + 1]
    /\ UNCHANGED uLast
    /\ UNCHANGED upFrame

NextFitUpdate ==
    \/ UpdateFitnessAfterMatch
    \/ ScheduleFitnessUpdates
    \/ MarkAsFit
    \/ MarkAsInjured
    \/ YearPasses

(***************************************************************************)
(* SpecApi: FootballAPIService.get_chelsea_players, called by one caller   *)
(* one call after the other, with the cache entry and its timeout.         *)
(***************************************************************************)
MaxRequests == 4
MaxPlayers == 2
FallbackSquadSize == 21

\* None
NoPlayersData == [source |-> "none", players |-> 0]

\* the list _get_fallback_players_data returns
FallbackPlayers == [source |-> "fallback", players |-> FallbackSquadSize]

\* the list _process_sportmonks_players builds from a response with n players
ApiPlayers(n) == [source |-> "api", players |-> n]

(***************************************************************************)
(* What the request to Sportmonks can come to: a network error or timeout, *)
(* an HTTP error status, a body that is not JSON, JSON without 'data',     *)
(* squads the processing raises on, squads without 'players', and squads   *)
(* with players.                                                           *)
(***************************************************************************)
FailedKinds == {"timeout", "http_error", "bad_json", "no_data", "malformed", "no_players"}

SportmonksResponses ==
    {[kind |-> k, players |-> 0] : k \in FailedKinds}
    \cup {[kind |-> "squad", players |-> n] : n \in 1..MaxPlayers}

(***************************************************************************)
(* _fetch_sportmonks_players: every exception is caught and gives None;    *)
(* squads without 'players' give the empty list.                           *)
(***************************************************************************)
fetch_sportmonks_players(r) ==
    IF r.kind = "squad" THEN ApiPlayers(r.players)
    ELSE IF r.kind = "no_players" THEN ApiPlayers(0)
    ELSE NoPlayersData

\* the truth value of players_data in "if players_data:"
Truthy(players_data) == players_data.source # "none" /\ players_data.players > 0

(***************************************************************************)
(* What get_chelsea_players stores in the cache after the fetch: the data  *)
(* of the API when there is any, nothing (<<>>) otherwise.                 *)
(***************************************************************************)
CacheSetFallbackToo(players_data) ==
    IF Truthy(players_data) THEN <<players_data>> ELSE <<FallbackPlayers>>

CacheSetAfterFetch(players_data) ==
    IF Truthy(players_data) THEN <<players_data>> ELSE <<>>

ApiInit ==
    /\ apiCache = <<>>
    /\ apiPc = "idle"
    /\ apiOut = <<>>
    /\ apiFetched = <<>>
    /\ apiContacted = FALSE
    /\ apiLast = "none"
    /\ apiRequests = 0

\* a caller (simple_views) calls get_chelsea_players
ApiBegin ==
    /\ apiPc = "idle"
    /\ apiRequests < MaxRequests
    /\ apiPc' = "get"
    /\ apiOut' = <<>>
    /\ apiFetched' = <<>>
    /\ apiContacted' = FALSE
    /\ UNCHANGED <<apiCache, apiLast, apiRequests>>
    /\ UNCHANGED apiFrame

\* cached_data = cache.get(cache_key); if cached_data: return cached_data
ApiCacheGet ==
    /\ apiPc = "get"
    /\ IF apiCache # <<>>
       THEN /\ apiOut' = apiCache
            /\ apiPc' = "done"
       ELSE /\ apiPc' = "fetch"
            /\ UNCHANGED apiOut
    /\ UNCHANGED <<apiCache, apiFetched, apiContacted, apiLast, apiRequests>>
    /\ UNCHANGED apiFrame

(***************************************************************************)
(* players_data = self._fetch_sportmonks_players(); data of the API is     *)
(* cached and returned, otherwise the fallback squad is returned.          *)
(***************************************************************************)
ApiFetch ==
    /\ apiPc = "fetch"
    /\ \E r \in SportmonksResponses :
          LET players_data == fetch_sportmonks_players(r)
          IN  /\ apiFetched' = <<r>>
              /\ apiCache' = (IF CacheSetAfterFetch(players_data) # <<>>
                              THEN CacheSetAfterFetch(players_data) ELSE apiCache)
              /\ apiOut' = (IF Truthy(players_data)
                            THEN <<players_data>> ELSE <<FallbackPlayers>>)
    /\ apiContacted' = TRUE
    /\ apiRequests' = apiRequests + 1
    /\ apiPc' = "done"
    /\ UNCHANGED apiLast
    /\ UNCHANGED apiFrame

\* the call returns; the caller may call again
ApiReturn ==
    /\ apiPc = "done"
    /\ apiLast' = (IF apiOut = <<FallbackPlayers>> THEN "fallback" ELSE "data")
    /\ apiPc' = "idle"
    /\ UNCHANGED <<apiCache, apiOut, apiFetched, apiContacted, apiRequests>>
    /\ UNCHANGED apiFrame

\* the cache entry expires after cache_timeout (3600 s)
ApiCacheExpire ==
    /\ apiCache # <<>>
    /\ apiCache' = <<>>
    /\ UNCHANGED <<apiPc, apiOut, apiFetched, apiContacted, apiLast, apiRequests>>
    /\ UNCHANGED apiFrame

NextApi ==
    \/ ApiBegin
    \/ ApiCacheGet
    \/ ApiFetch
    \/ ApiReturn
    \/ ApiCacheExpire

(***************************************************************************)
(* The specifications.                                                     *)
(***************************************************************************)
Init == LiveInit /\ ReadInit /\ CacheInit /\ ViewInit /\ CalcInit /\ FitInit
        /\ UpInit /\ ApiInit

Worker(p, statuses, scores, kickoffs) ==
    \/ RecordEventBegin(p)
    \/ RecordEventCreate(p)
    \/ RecordEventGoal(p)
    \/ RecordEventStatsGet(p)
    \/ RecordEventStatsInsert(p)
    \/ RecordEventStatsSave(p)
    \/ RecordEventClear(p)
    \/ UpdateBegin(p, statuses, scores, kickoffs)
    \/ UpdateSave(p)
    \/ UpdateTeamStats(p)
    \/ UpdatePlayerStatsBegin(p)
    \/ UpdatePlayerStatsGet(p)
    \/ UpdatePlayerStatsInsert(p)
    \/ UpdatePlayerStatsSave(p)
    \/ UpdateClear(p)
    \/ RequestReturn(p)

(***************************************************************************)
(* Spec: two workers race; the requests draw from the reduced input sets.  *)
(***************************************************************************)
Next == \E p \in Procs : Worker(p, RaceStatusInputs, RaceScoreInputs, {FALSE})

Spec == Init /\ [][Next]_vars

(***************************************************************************)
(* SpecSerial: one worker handles one request after the other; the         *)
(* requests draw from the full input sets.                                 *)
(***************************************************************************)
NextSerial == Worker(1, StatusInputs, ScoreInputs, BOOLEAN)

SpecSerial == Init /\ [][NextSerial]_vars

RecordEventWorker(p) ==
    \/ RecordEventBegin(p)
    \/ RecordEventCreate(p)
    \/ RecordEventGoal(p)
    \/ RecordEventStatsGet(p)
    \/ RecordEventStatsInsert(p)
    \/ RecordEventStatsSave(p)
    \/ RecordEventClear(p)
    \/ RequestReturn(p)

NextEvents ==
    \/ \E p \in Procs : RecordEventWorker(p)
    \/ MarkMatchesCompleted

SpecEvents == Init /\ [][NextEvents]_vars

NextRead ==
    \/ Worker(1, RaceStatusInputs, RaceScoreInputs, {FALSE})
    \/ ReadBegin
    \/ ReadCacheGet
    \/ ReadBuildAndCache
    \/ ReadReturn
    \/ LiveCacheExpire

SpecRead == Init /\ [][NextRead]_vars

(***************************************************************************)
(* SpecTiming: one worker handles live updates and events arriving         *)
(* through LiveTrackingView and through MatchEventsView.                   *)
(***************************************************************************)
NextTiming ==
    \/ Worker(1, TimingStatusInputs, {}, {FALSE})
    \/ MatchEventsPost(1)

SpecTiming == Init /\ [][NextTiming]_vars

SpecCache == Init /\ [][NextCache]_vars

SpecViews == Init /\ [][NextViews]_vars

SpecCalc == Init /\ [][NextCalc]_vars

SpecFitness == Init /\ [][NextFitness]_vars

SpecFitUpdate == Init /\ [][NextFitUpdate]_vars

SpecApi == Init /\ [][NextApi]_vars

(***************************************************************************)
(* Claims about the live-tracking handlers.                                *)
(***************************************************************************)
FailureResponses == {"error", "player_not_found"}

\* C2: a record_event or update_match_live call that reports failure
\* (success: False) has persisted none of the changes it made: no MatchEvent,
\* score, status, kickoff, TeamStats or PlayerStats change of that call is in
\* the database when it returns.
FailedCallPersistsNothing ==
    \A p \in Procs : (pc[p] = "done" /\ resp[p] \in FailureResponses) => ~wrote[p]

CompletedStatuses == {"FULL_TIME", "COMPLETED"}

\* C5: the result of the stored match is 'TBD' exactly when the status is
\* neither FULL_TIME nor COMPLETED; otherwise it is WIN, LOSS or DRAW as
\* chelsea_score is greater than, less than or equal to opponent_score, and
\* it is then the result validate_match_result_consistency accepts.
ResultFollowsStatusAndScore ==
    /\ (Result(match) = "TBD") <=> (match.status \notin CompletedStatuses)
    /\ match.status \in CompletedStatuses =>
          /\ (match.chelsea_score > match.opponent_score) <=> (Result(match) = "WIN")
          /\ (match.chelsea_score < match.opponent_score) <=> (Result(match) = "LOSS")
          /\ (match.chelsea_score = match.opponent_score) <=> (Result(match) = "DRAW")
          /\ validate_match_result_consistency(match.chelsea_score, match.opponent_score,
                                               Result(match))

\* A finished match level on goals after a recorded goal: the result is DRAW.
ResultWitness ==
    /\ match.status = "FULL_TIME"
    /\ events["GOAL"] > 0
    /\ match.chelsea_score = match.opponent_score
    /\ match.chelsea_score > 0
    /\ Result(match) = "DRAW"

\* C6: at most one PlayerStats row exists for any (player, match) pair, in
\* every state of every interleaving of record_event and update_match_live.
AtMostOnePlayerStatsRow ==
    \A pl \in Players : Len(playerStats[pl]) <= 1

\* Two concurrent record_event calls both found no row; one has inserted its
\* row and the other is about to insert.
ConcurrentInsertWitness ==
    /\ pc[1] = "re_ins"
    /\ pc[2] = "re_save"
    /\ Len(playerStats[KnownPlayer]) = 1

(***************************************************************************)
(* Claims about the API views.                                             *)
(***************************************************************************)
\* C1: when the service a view calls raises a ChelseaFCException subclass,
\* the view answers with a JSON error response; the exception never leaves
\* the view.
ViewsCatchServiceExceptions == vPc = "done" => vResult # "propagated"

(***************************************************************************)
(* Claims about the signals and the cached widgets.                        *)
(***************************************************************************)
MatchChangeOps == {"match_created", "match_updated", "match_deleted"}
PlayerChangeOps == {"player_created", "player_updated", "player_deleted"}
MatchWidgets == {"recent_matches", "overview_stats"}
PlayerWidgets == {"fitness_overview", "squad_availability"}

\* C3: the first call of a cached widget after a completed save or delete of
\* the model it is built from returns the data computed from the database as
\* it is after the change, never a value cached before it.
WidgetFreshAfterChange ==
    [][((\/ lastOp \in MatchChangeOps /\ ret'.widget \in MatchWidgets
         \/ lastOp \in PlayerChangeOps /\ ret'.widget \in PlayerWidgets)
        /\ lastOp' = "widget" /\ ~ret'.raised)
       => ret'.data = <<WidgetData(ret'.widget)>>]_vars

\* C4: when a save or delete of a Match returns, the cache holds nothing
\* under 'recent_matches', 'upcoming_fixtures', 'season_statistics'; when a
\* save or delete of a Player returns, nothing under 'active_players_list',
\* 'squad_overview'; for created and updated rows, any status and fitness.
SignalKeysEmptyAfterChange ==
    /\ lastOp \in MatchChangeOps => \A k \in MatchSignalKeys : cache[k] = <<>>
    /\ lastOp \in PlayerChangeOps => \A k \in PlayerSignalKeys : cache[k] = <<>>

\* an updated, finished match has been saved while the player keys and a
\* widget key hold values
FinishedMatchSavedWitness ==
    /\ lastOp = "match_updated"
    /\ dbMatch.status = "FULL_TIME"
    /\ \A k \in PlayerSignalKeys : cache[k] # <<>>
    /\ cache["widget_recent_matches"] # <<>>

\* C7: the win_rate the Season Overview widget reports equals wins/total*100
\* over the finished matches, 0 without one, as utils.calculate_win_rate and
\* FormationEngine._calculate_win_rate compute it.
SeasonOverviewReportsWinRate ==
    (lastOp = "widget" /\ ret.widget = "overview_stats") =>
        /\ ~ret.raised
        /\ LET finished == IF dbMatch.exists /\ dbMatch.status \in {"COMPLETED", "FULL_TIME"}
                           THEN <<dbMatch>> ELSE <<>>
           IN  ret.data[1].stats.win_rate = FormationEngine_calculate_win_rate(finished)

AgeIsCompleteYears ==
    calcOp = "age" =>
        LET birth == calcArgs[1]
            today == calcArgs[2]
            had_birthday == \/ today.m > birth.m
                            \/ today.m = birth.m /\ today.d >= birth.d
        IN  calcOut.age = IF had_birthday THEN today.y - birth.y
                          ELSE today.y - birth.y - 1

(***************************************************************************)
(* Claims about the fitness monitor.                                       *)
(***************************************************************************)
\* C10: get_fitness_status(player) terminates and returns a fitness report;
\* stated here for the players without statistics of a recent match, for
\* whom _calculate_fitness_trend returns.
FitnessStatusReturnsReport ==
    (fPc = "done" /\ ~fPlayer.recent_stats) => fOut = "report"

(***************************************************************************)
(* Claims about interleaved live-tracking calls.                           *)
(***************************************************************************)
\* C11: an update_match_live call whose update_data has no 'score' never
\* changes chelsea_score or opponent_score, also when a record_event GOAL
\* call on the same match runs between its steps.
ScorelessUpdateKeepsScore ==
    [][\A p \in Procs : \A q \in Procs \ {p} :
          (/\ pc[p] = "um_save" /\ pc'[p] = "um_team" /\ ~req[p].has_score
           /\ req[q].op = "record_event" /\ req[q].event_type = "GOAL")
          => /\ match'.chelsea_score = match.chelsea_score
             /\ match'.opponent_score = match.opponent_score]_vars

\* C12: for a match that starts at 0-0 without events and is changed only
\* through record_event, chelsea_score equals the number of GOAL MatchEvent
\* rows once the calls have run their increment, under every interleaving,
\* and events of the other types leave both scores as they are.
ScoreCountsGoalEvents ==
    /\ match.chelsea_score = events["GOAL"] - Cardinality({p \in Procs : pc[p] = "re_goal"})
    /\ match.opponent_score = 0
    /\ (\A p \in Procs : pc[p] \in {"idle", "done"}) => match.chelsea_score = events["GOAL"]

\* both calls have returned: one goal, one card, a finished match
GoalAndCardRecordedWitness ==
    /\ \A p \in Procs : pc[p] = "done"
    /\ events["GOAL"] = 1 /\ events["YELLOW_CARD"] = 1
    /\ match.chelsea_score = 1
    /\ match.status = "COMPLETED"

\* C13: after record_event or update_match_live has returned success, a
\* get_live_data call made afterwards returns the score, status and events
\* as of that update or later, never data cached before it.  Stated for a
\* call answered from the cache while the writer rests on its success.
LiveDataFreshAfterSuccess ==
    [][(/\ rdPc = "get" /\ rdPc' = "done"
        /\ pc[1] = "done" /\ resp[1] = "success")
       => rdOut' = <<LiveMatchData(match)>>]_vars

StatusIsAChoice == match.status \in STATUS_CHOICES

TerminalStatuses == {"COMPLETED", "CANCELLED"}

EarlierStatuses == {"SCHEDULED", "LIVE", "HALF_TIME"}

\* C16: the status moves only forward: once a match is COMPLETED or CANCELLED,
\* no update_match_live call returns it to SCHEDULED, LIVE or HALF_TIME.
StatusMovesForward ==
    [][\A p \in Procs :
          (/\ pc[p] = "um_save" /\ pc'[p] = "um_team"
           /\ match.status \in TerminalStatuses)
          => match'.status \notin EarlierStatuses]_vars

\* C17: no MatchEvent with minute > 0 is stored for a match whose status is
\* SCHEDULED or CANCELLED, whether the event arrives through
\* LiveTracker.record_event or through MatchEventsView.post.
StoredEventsTimingConsistent ==
    [][\A p \in Procs :
          /\ (/\ pc[p] = "re_create" /\ pc'[p] # "re_create"
              /\ events' # events)
             => validate_event_timing_consistency(req[p].minute, match.status)
          /\ (/\ pc[p] = "idle" /\ pc'[p] = "done"
              /\ events' # events)
             => validate_event_timing_consistency(req'[p].minute, match.status)]_vars

\* C18: Player.fitness_level stays within 0..100 after any sequence of
\* update_fitness_after_match, schedule_fitness_updates and the admin action
\* 'mark as fit', for any stored PlayerStats values and any player age.
FitnessLevelInRange ==
    /\ uPlayer.fitness_level >= 0
    /\ uPlayer.fitness_level <= 100

\* C19: get_chelsea_players returns the fallback squad, without raising,
\* whenever the Sportmonks fetch fails or returns nothing; it never writes
\* fallback data to the cache, and the call that follows a call with a failed
\* fetch contacts the API again.
FallbackOnFailedFetch ==
    /\ apiCache # <<FallbackPlayers>>
    /\ (apiPc = "done" /\ apiFetched # <<>> /\ apiFetched[1].kind \in FailedKinds)
          => apiOut = <<FallbackPlayers>>
    /\ (apiPc = "done" /\ apiLast = "fallback") => apiContacted

FailedFetchTwiceWitness ==
    /\ apiPc = "done"
    /\ apiLast = "fallback"
    /\ apiContacted
    /\ apiRequests = 2
    /\ apiFetched # <<>> /\ apiFetched[1].kind = "no_players"
    /\ apiOut = <<FallbackPlayers>>

====
